---------------------------- MODULE Spec2Model ----------------------------
(***************************************************************************)
(* File Categorizer: the Electron main process (main.js), the renderer     *)
(* (renderer.js) and the Python backend they drive.                        *)
(*                                                                         *)
(* main.js and renderer.js are modelled from their source.  The Python     *)
(* backend (categorizer.py, undo_manager.py) is not part of the available  *)
(* sources; its planner, executor and undo manager are modelled from the   *)
(* design document (sections 3, 4.4, 4.5, 4.6) and are marked as such.     *)
(*                                                                         *)
(* Environment of the renderer (index.html is not part of the sources):    *)
(*  - the page starts with no mode checked and with the Simulate,          *)
(*    Categorize and Undo buttons disabled;                                *)
(*  - the cancel button belongs to the progress bar and can be pressed     *)
(*    only while the bar is shown;                                         *)
(*  - while the simulation modal is open only its own buttons respond.     *)
(* ChildProcess.kill() either terminates the backend where it stands or is *)
(* taken by the backend as a cooperative cancel request; which of the two  *)
(* is fixed per behaviour (killOutcome).                                   *)
(***************************************************************************)
EXTENDS Integers, Sequences, FiniteSets, TLC

\* ------------------------------------------------------------------------
\* Bounds
\* ------------------------------------------------------------------------

\* Number of backend processes that can exist at a time (spawned, 'close'
\* not yet handled).
MaxAlive == 2

\* Number of operation logs the logs directory can hold.
MaxLogs == 1

\* The same, where requests are serialized on a page with one mode.
MaxSerialLogs == 2

\* Number of records in one planning input of SpecPlan.
MaxPlanRecords == 3

\* ------------------------------------------------------------------------
\* Small helpers
\* ------------------------------------------------------------------------

Range(s) == {s[i] : i \in 1..Len(s)}

None == "none"

\* ------------------------------------------------------------------------
\* Files, names and modes
\* ------------------------------------------------------------------------

\* A file name is its stem, a sequence of "_"-separated tokens, and its
\* extension: <<"img","1">> with "jpg" is img_1.jpg.
MkName(stem, ext) == [stem |-> stem, ext |-> ext]

\* The modes of the model.
ModeSet == {"extension", "size"}

\* The values of the conflict resolution selector.
ConflictValues == {"number", "timestamp"}

\* The folder the user can pick in the folder dialog.
TheFolder == "dirA"

\* The files of TheFolder when the application starts.
Files == {"f1", "f2"}

FileOrder == <<"f1", "f2">>

MB == 1024 * 1024

\* Name, size in bytes and modification time (in tenths of a second) of
\* each file.
FileAttr ==
    [f \in Files |->
        IF f = "f1"
        THEN [name |-> MkName(<<"report">>, "txt"), size |-> 2 * 1024, mtime |-> 10]
        ELSE [name |-> MkName(<<"photo">>, "jpg"), size |-> 3 * 1024, mtime |-> 20]]

\* ------------------------------------------------------------------------
\* Backend: classifiers and PlanBuilder (design document 4.2 and 4.4)
\* ------------------------------------------------------------------------

\* Canonical mode order of the PlanBuilder.
ModeOrder == <<"extension", "size">>

ActiveModes(modes) == SelectSeq(ModeOrder, LAMBDA m : m \in Range(modes))

\* size classifier: the default bucket whose half-open interval holds bytes.
SizeBucket(bytes) ==
    IF bytes < MB THEN "0-1MB"
    ELSE IF bytes < 10 * MB THEN "1-10MB"
    ELSE IF bytes < 100 * MB THEN "10-100MB"
    ELSE IF bytes < 1024 * MB THEN "100MB-1GB"
    ELSE "1GB+"

\* One classifier per mode: FileRecord -> label.
Label(rec, mode) ==
    IF mode = "extension"
    THEN (IF rec.name.ext = "" THEN "no_extension" ELSE rec.name.ext)
    ELSE SizeBucket(rec.size)

\* The destination folder: one path segment per active classifier, in
\* canonical mode order.
DestFolder(rec, modes) ==
    [i \in 1..Len(ActiveModes(modes)) |-> Label(rec, ActiveModes(modes)[i])]

\* Decimal rendering of a suffix number.
NumStr(n) == <<"1", "2", "3", "4", "5", "6", "7", "8", "9">>[n]

\* Modification time formatted to the second (mtime is in tenths).
FormatTime(mtime) == <<"S0", "S1", "S2", "S3">>[(mtime \div 10) + 1]

WithSuffix(name, tok) == [name EXCEPT !.stem = Append(@, tok)]

RECURSIVE FirstUnused(_, _, _)
\* number strategy: name_1, name_2, ...: the first one not taken.
FirstUnused(name, taken, n) ==
    IF WithSuffix(name, NumStr(n)) \notin taken
    THEN WithSuffix(name, NumStr(n))
    ELSE FirstUnused(name, taken, n + 1)

\* Names already assigned by the plan entries acc in folder.
AssignedIn(acc, folder) ==
    {acc[i].destinationName : i \in {j \in 1..Len(acc) : acc[j].folder = folder}}

\* Names of the files the destination folder already holds.
ExistingIn(existing, folder) ==
    {e.name : e \in {x \in existing : x.folder = folder}}

\* Conflict resolution for a record whose folder+name another record of the
\* plan already received.
ResolveConflict(rec, folder, acc, options, existing) ==
    IF options.conflictResolution = "number"
    THEN FirstUnused(rec.name,
                     AssignedIn(acc, folder) \cup ExistingIn(existing, folder), 1)
    ELSE WithSuffix(rec.name, FormatTime(rec.mtime))

\* The plan entry of rec, given the entries acc of the records before it.
PlanEntry(rec, acc, modes, options, existing) ==
    LET folder == DestFolder(rec, modes)
    IN  [record |-> rec.path,
         folder |-> folder,
         destinationName |->
            IF rec.name \in AssignedIn(acc, folder)
            THEN ResolveConflict(rec, folder, acc, options, existing)
            ELSE rec.name]

RECURSIVE PlanEntries(_, _, _, _, _)
PlanEntries(records, acc, modes, options, existing) ==
    IF records = <<>> THEN acc
    ELSE PlanEntries(Tail(records),
                     Append(acc, PlanEntry(Head(records), acc, modes, options, existing)),
                     modes, options, existing)

RECURSIVE FolderOrder(_, _)
\* The folders of the entries, in order of first appearance.
FolderOrder(entries, seen) ==
    IF entries = <<>> THEN seen
    ELSE FolderOrder(Tail(entries),
                     IF Head(entries).folder \in Range(seen) THEN seen
                     ELSE Append(seen, Head(entries).folder))

\* Plan: destination folder -> ordered list of {record, destinationName},
\* kept as a sequence of folders to fix the iteration order.
BuildPlan(records, modes, options, existing) ==
    LET entries == PlanEntries(records, <<>>, modes, options, existing)
        order   == FolderOrder(entries, <<>>)
    IN  [k \in 1..Len(order) |->
            [folder |-> order[k],
             files  |-> SelectSeq(entries, LAMBDA e : e.folder = order[k])]]

RECURSIVE PlanQueue(_)
\* The entries of a plan in plan iteration order.
PlanQueue(plan) ==
    IF plan = <<>> THEN <<>> ELSE Head(plan).files \o PlanQueue(Tail(plan))

\* ------------------------------------------------------------------------
\* State
\* ------------------------------------------------------------------------

VARIABLES
    folder,          \* renderer: state.folder (None when null)
    modeCheckboxes,  \* renderer: dom.modeCheckboxes, the mode checkboxes of the page
    checked,         \* renderer: the checked mode checkboxes
    modes,           \* renderer: state.modes
    options,         \* renderer: state.options
    hasUndo,         \* renderer: state.hasUndo
    btn,             \* renderer: disabled flags of the run and undo buttons
    progressVisible, \* renderer: the progress bar (with its cancel button) is shown
    modal,           \* renderer: simulation modal and the preview it displays
    checkPending,    \* renderer: a checkUndo() call awaits get-last-operation
    pythonProcess,   \* main: the module-level process reference (0 when null)
    procs,           \* the backend processes whose 'close' has not been handled
    killOutcome,     \* what ChildProcess.kill() does to the backend on this platform
    loc,             \* filesystem: file -> [dir, name]
    folders,         \* filesystem: the subfolders of the selected folder
    logs,            \* filesystem: the operation logs of the logs directory
    pIn,             \* SpecPlan: the planning input
    pOut,            \* SpecPlan: the plan built from it
    cIn,             \* SpecClose: the exit code and output of a backend
    cOut,            \* SpecClose: how the close handler settled the promise
    sIn,             \* SpecSimilarity: stems, algorithm and two thresholds
    sOut,            \* SpecSimilarity: the clusters at either threshold
    resultDom,       \* SpecResult: the result pane of the page
    lastShown,       \* SpecResult: the result last shown, the errors of the one before
    logContent,      \* SpecLog: the child nodes of the log pane, first to last
    logged           \* SpecLog: the number of log() calls so far

rendererVars == <<modeCheckboxes, folder, checked, modes, options, hasUndo, btn,
                  progressVisible, modal, checkPending>>
mainVars == <<pythonProcess, procs, killOutcome>>
fsVars == <<loc, folders, logs>>
domVars == <<resultDom, lastShown, logContent, logged>>
planVars == <<pIn, pOut, cIn, cOut, sIn, sOut, domVars>>
vars == <<rendererVars, mainVars, fsVars, planVars>>

Root == <<>>

Pids == DOMAIN procs

\* A process is alive from spawn until it has exited.
Alive(p) == procs[p].st \in {"running", "cancelling"}

AlivePids == {p \in Pids : Alive(p)}

NoArgs == [folderPath |-> None, modes |-> <<>>, advancedOptions |-> [conflictResolution |-> None]]

InitLoc == [f \in Files |-> [dir |-> Root, name |-> FileAttr[f].name]]

\* The folder is as it was when the application started.
Pristine == loc = InitLoc /\ folders = {}

\* ------------------------------------------------------------------------
\* Main process (main.js)
\* ------------------------------------------------------------------------

\* The child process created by spawn(), with the promise of runPython
\* attached: op and args are the command line, fn and preview belong to the
\* renderer call that awaits the reply.  solo: no other process existed
\* while this one did; pristine: it started on the folder as it first was.
NewProc(op, args, fn, preview) ==
    [op |-> op, args |-> args, fn |-> fn, preview |-> preview,
     st |-> "running", pc |-> "start",
     queue |-> <<>>, idx |-> 0, errors |-> <<>>, log |-> 0, moved |-> {},
     code |-> 0, stdout |-> <<>>, stderr |-> "", err |-> "",
     cancelled |-> FALSE,
     solo |-> Pids = {}, pristine |-> Pristine]

FreePid == CHOOSE p \in 1..MaxAlive : p \notin Pids

\* runPython: spawn the backend and store it in the module-level reference.
runPython(op, args, fn, preview) ==
    /\ Cardinality(Pids) < MaxAlive
    /\ procs' = [p \in Pids \cup {FreePid} |->
                    IF p = FreePid THEN NewProc(op, args, fn, preview)
                    ELSE [procs[p] EXCEPT !.solo = FALSE]]
    /\ pythonProcess' = FreePid
    /\ UNCHANGED killOutcome

\* The RESULT: lines and the PROGRESS: lines of the collected output.
ResultLines(stdout) == SelectSeq(stdout, LAMBDA l : l.t = "RESULT")
ProgressLines(stdout) == SelectSeq(stdout, LAMBDA l : l.t = "PROGRESS")

\* The text of the output is a sequence of tokens: the two markers
\* wherever they occur, the braces, the line ends and other characters "w".
\* The token that opens an object carries the object; Strings(o) is what
\* its string values hold (file names, messages), between the braces.
Tok(k) == [k |-> k]
Strings(o) == IF "text" \in DOMAIN o THEN o.text ELSE <<>>
Stringify(o) == <<[k |-> "{", obj |-> o]>> \o Strings(o) \o <<Tok("}")>>

\* One printed line: the marker, the JSON text and the line end; a line
\* that did not arrive whole is the text that did arrive.
LineText(l) ==
    IF l.t = "TEXT" THEN l.text
    ELSE <<Tok(l.t \o ":")>> \o Stringify(l.json) \o <<Tok("\n")>>

RECURSIVE Text(_)
Text(stdout) ==
    IF stdout = <<>> THEN <<>> ELSE LineText(Head(stdout)) \o Text(Tail(stdout))

RECURSIVE trim(_)
\* String.prototype.trim: white space removed at both ends.
trim(text) ==
    IF text = <<>> THEN <<>>
    ELSE IF Head(text).k = "\n" THEN trim(Tail(text))
    ELSE IF text[Len(text)].k = "\n" THEN trim(SubSeq(text, 1, Len(text) - 1))
    ELSE text

\* JSON.parse: the text must be exactly one object, white space around it
\* allowed; anything else throws.
JSONparse(text) ==
    LET t == trim(text)
    IN  IF /\ Len(t) >= 2
           /\ t[1].k = "{" /\ "obj" \in DOMAIN t[1]
           /\ t[Len(t)].k = "}"
           /\ SubSeq(t, 2, Len(t) - 1) = Strings(t[1].obj)
        THEN [ok |-> TRUE, value |-> t[1].obj]
        ELSE [ok |-> FALSE]

\* indexOf / lastIndexOf over the tokens; 0 when absent.
indexOf(text, ks, from) ==
    LET I == {i \in from..Len(text) : text[i].k \in ks}
    IN  IF I = {} THEN 0 ELSE CHOOSE i \in I : \A j \in I : i <= j
lastIndexOf(text, ks) ==
    LET I == {i \in 1..Len(text) : text[i].k \in ks}
    IN  IF I = {} THEN 0 ELSE CHOOSE i \in I : \A j \in I : i >= j

\* stdout.match(/RESULT:([\s\S]*?)(?:$|PROGRESS:)/)[1]: from the first
\* RESULT: to the first PROGRESS: after it, or to the end of the output.
jsonMatch(text) ==
    LET i == indexOf(text, {"RESULT:"}, 1)
        j == indexOf(text, {"PROGRESS:"}, i + 1)
    IN  IF i = 0 THEN [found |-> FALSE]
        ELSE [found |-> TRUE,
              group |-> SubSeq(text, i + 1, IF j = 0 THEN Len(text) ELSE j - 1)]

\* The body of the close handler for exit code 0: the value the promise
\* resolves with.
parseStdout(stdout) ==
    LET text == Text(stdout)
        m == jsonMatch(text)
        lastJsonStart == lastIndexOf(text, {"{"})
        parsed == IF m.found THEN JSONparse(m.group)
                  ELSE JSONparse(SubSeq(text, lastJsonStart, Len(text)))
    IN  IF ~m.found /\ lastJsonStart = 0
        THEN [success |-> TRUE, message |-> stdout]
        ELSE IF parsed.ok THEN parsed.value
        ELSE [success |-> TRUE, raw |-> stdout]

\* The 'close' handler with the exit-code test inverted.
closeHandlerInverted(code, stdout, stderr) ==
    IF code # 0
    THEN [settled |-> "resolve", value |-> parseStdout(stdout)]
    ELSE [settled |-> "reject",
          value |-> IF stderr # "" THEN stderr ELSE "Python process exited"]

\* The 'close' handler of runPython: how the promise settles.
closeHandler(code, stdout, stderr) ==
    IF code = 0
    THEN [settled |-> "resolve", value |-> parseStdout(stdout)]
    ELSE [settled |-> "reject",
          value |-> IF stderr # "" THEN stderr ELSE "Python process exited"]

\* The 'error' handler of runPython: the process could not be spawned.
errorHandler(err) == [settled |-> "reject", value |-> err]

\* The 'error' event of process p: spawn() failed.
SpawnError(p) ==
    /\ Alive(p) /\ procs[p].st = "running" /\ procs[p].pc = "start"
    /\ procs' = [procs EXCEPT ![p] =
                    [@ EXCEPT !.st = "exited", !.pc = "done", !.err = "spawn ENOENT"]]
    /\ UNCHANGED <<rendererVars, pythonProcess, killOutcome, fsVars, planVars>>

\* An IPC handler that lets the rejection of runPython through.
ipcReplyUncaught(settlement) ==
    IF settlement.settled = "resolve"
    THEN settlement.value
    ELSE [rejected |-> settlement.value]

\* try { return await runPython(args) } catch { return {success:false, error} }
\* of the scan-folder, simulate, categorize and undo handlers.
ipcReply(settlement) ==
    IF settlement.settled = "resolve"
    THEN settlement.value
    ELSE [success |-> FALSE, error |-> settlement.value]

\* result.success as the renderer tests it.
Succeeded(result) == "success" \in DOMAIN result /\ result.success

\* The outcomes of ChildProcess.kill() on a live backend: the process is
\* terminated at once (no handler for the signal; always so on Windows), or
\* the backend takes the signal as the cooperative cancel request.
KillOutcomes == {"terminated", "cooperative"}

killed(proc, outcome) ==
    IF proc.st \notin {"running", "cancelling"} THEN proc
    ELSE IF outcome = "terminated"
    THEN [proc EXCEPT !.st = "exited", !.code = 1, !.cancelled = TRUE]
    ELSE [proc EXCEPT !.st = "cancelling", !.cancelled = TRUE]

\* The cancel-operation handler.
cancelOperation ==
    /\ IF pythonProcess # 0
       THEN /\ procs' = [procs EXCEPT ![pythonProcess] = killed(@, killOutcome)]
            /\ pythonProcess' = 0
       ELSE UNCHANGED <<procs, pythonProcess>>
    /\ UNCHANGED killOutcome

\* What the cancel-operation handler answers.
cancelReply ==
    IF pythonProcess # 0
    THEN [success |-> TRUE]
    ELSE [success |-> FALSE, message |-> "No operation running"]

\* The operation log files get-last-operation lists: operation_*.json.
ListedLogs == {i \in 1..Len(logs) : ~logs[i].archived}

\* get-last-operation without the reverse(): the first listed log.
getFirstOperation ==
    IF ListedLogs = {} THEN 0
    ELSE CHOOSE i \in ListedLogs : \A j \in ListedLogs : i <= j

\* The get-last-operation handler: the last listed log, or null (0).
getLastOperation ==
    IF ListedLogs = {} THEN 0
    ELSE CHOOSE i \in ListedLogs : \A j \in ListedLogs : j <= i

\* ------------------------------------------------------------------------
\* Backend process (design document 4.1, 4.5, 4.6, 6)
\* ------------------------------------------------------------------------

mainRest == <<pythonProcess, killOutcome>>

\* FileIndexer: the regular files directly in the folder, in scan order.
ScanRecords ==
    LET here == SelectSeq(FileOrder, LAMBDA f : loc[f].dir = Root)
    IN  [i \in 1..Len(here) |->
            [path  |-> loc[here[i]],
             name  |-> loc[here[i]].name,
             size  |-> FileAttr[here[i]].size,
             mtime |-> FileAttr[here[i]].mtime]]

\* The files whose move cannot fail for lack of permission.
Movable == {"f1"}

\* What the destination folders hold already.
ExistingFiles ==
    {[folder |-> loc[f].dir, name |-> loc[f].name] : f \in {g \in Files : loc[g].dir # Root}}

FileAt(path) == {f \in Files : loc[f] = path}

Prefixes(path) == {SubSeq(path, 1, k) : k \in 1..Len(path)}

IsPrefix(a, b) == Len(a) < Len(b) /\ SubSeq(b, 1, Len(a)) = a

\* A folder with no file and no subfolder in it.
IsEmptyFolder(d, fl) ==
    /\ \A f \in Files : loc[f].dir # d
    /\ \A e \in fl : ~IsPrefix(d, e)

RECURSIVE RemoveEmpty(_, _)
\* Remove the empty folders among cands, walking upward.
RemoveEmpty(fl, cands) ==
    LET rem == {d \in cands \cap fl : IsEmptyFolder(d, fl)}
    IN  IF rem = {} THEN fl ELSE RemoveEmpty(fl \ rem, cands)

\* The process ends with exit code 0 after printing RESULT:<json>.
Exit(proc, result) ==
    [proc EXCEPT !.st = "exited", !.code = 0, !.pc = "done",
                 !.stdout = Append(@, [t |-> "RESULT", json |-> result])]

Progress(i, n) == [t |-> "PROGRESS", json |-> [percent |-> (100 * i) \div n]]

\* A fatal, operation-level error (folder not found, not a directory, not
\* readable): the backend aborts before any filesystem change, here with a
\* message on stderr and exit code 1.
Abort(p) ==
    /\ Alive(p) /\ procs[p].st = "running" /\ procs[p].pc = "start"
    /\ procs' = [procs EXCEPT ![p] =
                    [@ EXCEPT !.st = "exited", !.pc = "done", !.code = 1,
                              !.stderr = "folder not found"]]
    /\ UNCHANGED <<rendererVars, mainRest, fsVars, planVars>>

\* --scan
Scan(p) ==
    /\ Alive(p) /\ procs[p].op = "scan" /\ procs[p].pc = "start"
    /\ procs' = [procs EXCEPT ![p] =
                    Exit(@, [success |-> TRUE, total_files |-> Len(ScanRecords)])]
    /\ UNCHANGED <<rendererVars, mainRest, fsVars, planVars>>

\* --simulate: stop after planning and return the plan.
Simulate(p) ==
    /\ Alive(p) /\ procs[p].op = "simulate" /\ procs[p].pc = "start"
    /\ procs' = [procs EXCEPT ![p] =
                    Exit(@, [success |-> TRUE,
                             total_files |-> Len(ScanRecords),
                             plan |-> BuildPlan(ScanRecords, procs[p].args.modes,
                                                procs[p].args.advancedOptions,
                                                ExistingFiles)])]
    /\ UNCHANGED <<rendererVars, mainRest, fsVars, planVars>>

\* What is remembered of the execute that wrote a log once it has returned
\* to the renderer: it ran alone, it started on the folder as it first was,
\* it was cancelled or returned a failure, it moved at least one file.
NotReturned ==
    [closed |-> FALSE, solo |-> FALSE, pristine |-> FALSE, failed |-> FALSE,
     movedAny |-> FALSE]

\* The OperationLog the executor creates when execute starts.  ret and
\* undoSolo (the undo that archived the log ran alone) are not part of the
\* file.
NewLog(args, total) ==
    [folder |-> args.folderPath, modes |-> args.modes, total_files |-> total,
     operations |-> <<>>, completed |-> FALSE, archived |-> FALSE,
     ret |-> NotReturned, undoSolo |-> FALSE]

\* --execute: scan, plan, create the log.
ExecStart(p) ==
    /\ Alive(p) /\ procs[p].op = "execute" /\ procs[p].pc = "start"
    /\ logs' = Append(logs, NewLog(procs[p].args, Len(ScanRecords)))
    /\ procs' = [procs EXCEPT ![p] =
                    [@ EXCEPT !.pc = "entry", !.idx = 1, !.log = Len(logs) + 1,
                              !.queue = PlanQueue(BuildPlan(ScanRecords,
                                                            procs[p].args.modes,
                                                            procs[p].args.advancedOptions,
                                                            ExistingFiles))]]
    /\ UNCHANGED <<rendererVars, mainRest, loc, folders, planVars>>

ExecResult(proc, cancelled) ==
    [success |-> TRUE, total_files |-> Len(proc.queue),
     moved_files |-> Cardinality(proc.moved), errors |-> proc.errors,
     cancelled |-> cancelled]

\* Between two entries: honour a cancel request, finish after the last
\* entry, or create the destination folder of the next entry.
ExecEntry(p) ==
    /\ Alive(p) /\ procs[p].op = "execute" /\ procs[p].pc = "entry"
    /\ IF procs[p].st = "cancelling"
       THEN /\ procs' = [procs EXCEPT ![p] = Exit(@, ExecResult(@, TRUE))]
            /\ UNCHANGED <<folders, logs>>
       ELSE IF procs[p].idx > Len(procs[p].queue)
       THEN /\ procs' = [procs EXCEPT ![p] = Exit(@, ExecResult(@, FALSE))]
            /\ logs' = [logs EXCEPT ![procs[p].log].completed = TRUE]
            /\ UNCHANGED folders
       ELSE /\ folders' = folders \cup Prefixes(procs[p].queue[procs[p].idx].folder)
            /\ procs' = [procs EXCEPT ![p].pc = "move"]

            /\ UNCHANGED logs
    /\ UNCHANGED <<rendererVars, mainRest, loc, planVars>>

\* Move the record of the current entry; a failed move is recorded in the
\* errors list and the run goes on with the next entry.
ExecMove(p) ==
    /\ Alive(p) /\ procs[p].op = "execute" /\ procs[p].pc = "move"
    /\ LET e   == procs[p].queue[procs[p].idx]
           dst == [dir |-> e.folder, name |-> e.destinationName]
           can == FileAt(e.record) # {} /\ FileAt(dst) = {} /\ e.folder \in folders
       IN  \E ok \in (IF ~can THEN {FALSE}
                      ELSE IF FileAt(e.record) \subseteq Movable THEN {TRUE}
                      ELSE BOOLEAN) :
             IF ok
             THEN /\ loc' = [f \in Files |-> IF f \in FileAt(e.record) THEN dst ELSE loc[f]]
                  /\ procs' = [procs EXCEPT ![p] =
                                  [@ EXCEPT !.pc = "log", !.moved = @ \cup {e.record}]]
             ELSE /\ loc' = loc
                  /\ procs' = [procs EXCEPT ![p] =
                                  [@ EXCEPT !.pc = "entry", !.idx = @ + 1,
                                            !.errors = Append(@, e.record)]]
    /\ UNCHANGED <<rendererVars, mainRest, folders, logs, planVars>>

\* Append the OperationEntry of the move to the persisted log, emit progress.
ExecLog(p) ==
    /\ Alive(p) /\ procs[p].op = "execute" /\ procs[p].pc = "log"
    /\ LET e == procs[p].queue[procs[p].idx]
       IN  logs' = [logs EXCEPT ![procs[p].log].operations =
                       Append(@, [source |-> e.record,
                                  destination |-> [dir |-> e.folder,
                                                   name |-> e.destinationName]])]
    /\ procs' = [procs EXCEPT ![p] =
                    [@ EXCEPT !.pc = "entry", !.idx = @ + 1,
                              !.stdout = Append(@, Progress(procs[p].idx,
                                                           Len(procs[p].queue)))]]
    /\ UNCHANGED <<rendererVars, mainRest, loc, folders, planVars>>

\* The most recent log, archived or not.
LastLog == Len(logs)

\* The log undo reverses: the most recent unarchived one (0: none).
LastUnarchived ==
    IF \A i \in 1..Len(logs) : logs[i].archived THEN 0
    ELSE CHOOSE i \in 1..Len(logs) :
            ~logs[i].archived /\ \A j \in 1..Len(logs) : ~logs[j].archived => j <= i

\* The "nothing to undo" result, in the two forms the interface of undo
\* (design document 6) allows for a result that carries a message.
NothingToUndo ==
    {[success |-> TRUE, restored_files |-> 0, message |-> "nothing to undo"],
     [success |-> FALSE, message |-> "nothing to undo"]}

\* --undo: load the most recent unarchived log, or report nothing to undo.
UndoStart(p) ==
    /\ Alive(p) /\ procs[p].op = "undo" /\ procs[p].pc = "start"
    /\ IF LastUnarchived = 0
       THEN \E r \in NothingToUndo : procs' = [procs EXCEPT ![p] = Exit(@, r)]
       ELSE procs' = [procs EXCEPT ![p] =
                        [@ EXCEPT !.pc = "restore", !.log = LastUnarchived,
                                  !.idx = Len(logs[LastUnarchived].operations)]]
    /\ UNCHANGED <<rendererVars, mainRest, fsVars, planVars>>

UndoResult(proc, cancelled) ==
    [success |-> TRUE, restored_files |-> Cardinality(proc.moved),
     errors |-> proc.errors, cancelled |-> cancelled]

\* Replay the entries last-moved-first: move the destination back to its
\* source; a missing destination is a warning.
UndoRestore(p) ==
    /\ Alive(p) /\ procs[p].op = "undo" /\ procs[p].pc = "restore"
    /\ LET pr == procs[p]
       IN  IF pr.st = "cancelling"
           THEN /\ procs' = [procs EXCEPT ![p] = Exit(@, UndoResult(@, TRUE))]
                /\ loc' = loc
           ELSE IF pr.idx = 0 \/ pr.idx > Len(logs[pr.log].operations)
           THEN /\ procs' = [procs EXCEPT ![p].pc = "cleanup"]
                /\ loc' = loc
           ELSE LET e == logs[pr.log].operations[pr.idx]
                IN  IF FileAt(e.destination) # {} /\ FileAt(e.source) = {}
                    THEN /\ loc' = [f \in Files |->
                                      IF f \in FileAt(e.destination) THEN e.source ELSE loc[f]]
                         /\ procs' = [procs EXCEPT ![p] =
                                         [@ EXCEPT !.idx = @ - 1,
                                                   !.moved = @ \cup {e.source}]]
                    ELSE /\ loc' = loc
                         /\ procs' = [procs EXCEPT ![p] =
                                         [@ EXCEPT !.idx = @ - 1,
                                                   !.errors = Append(@, e.destination)]]
    /\ UNCHANGED <<rendererVars, mainRest, folders, logs, planVars>>

\* The destination folders of a log's entries and their ancestors below the
\* scanned root.
LogFolders(log) ==
    UNION {Prefixes(log.operations[i].destination.dir) : i \in 1..Len(log.operations)}

\* Remove the folders of the log's entries that are now empty.
UndoCleanup(p) ==
    /\ Alive(p) /\ procs[p].op = "undo" /\ procs[p].pc = "cleanup"
    /\ folders' = RemoveEmpty(folders, LogFolders(logs[procs[p].log]))
    /\ procs' = [procs EXCEPT ![p].pc = "archive"]
    /\ UNCHANGED <<rendererVars, mainRest, loc, logs, planVars>>

\* Archive the consumed log and report.
UndoArchive(p) ==
    /\ Alive(p) /\ procs[p].op = "undo" /\ procs[p].pc = "archive"
    /\ logs' = [logs EXCEPT ![procs[p].log] =
                    [@ EXCEPT !.archived = TRUE,
                              !.undoSolo = procs[p].solo /\ ~procs[p].cancelled]]
    /\ procs' = [procs EXCEPT ![p] = Exit(@, UndoResult(@, FALSE))]
    /\ UNCHANGED <<rendererVars, mainRest, loc, folders, planVars>>

\* ------------------------------------------------------------------------
\* Renderer (renderer.js)
\* ------------------------------------------------------------------------

\* updateButtons: the disabled flags of the Simulate/Categorize buttons and
\* of the Undo button.
updateButtons(f, m, h) == [run |-> ~(f # None /\ Len(m) > 0), undo |-> ~h]

\* The logs directory, with the logs the started executes are about to
\* create, holds at most n logs after the step.
LogsBudget(n) ==
    Len(logs') + Cardinality({p \in DOMAIN procs' :
                                procs'[p].op = "execute" /\ procs'[p].pc = "start"}) <= n

\* The request object built by simulate() and categorize().
Request == [folderPath |-> folder, modes |-> modes, advancedOptions |-> options]

\* selectFolder: the dialog returns a folder, the folder is scanned.
selectFolder ==
    /\ ~modal.visible
    /\ folder' = TheFolder
    /\ progressVisible' = TRUE
    /\ runPython("scan", [NoArgs EXCEPT !.folderPath = TheFolder], "selectFolder", <<>>)
    /\ UNCHANGED <<modeCheckboxes, checked, modes, options, hasUndo, btn, modal, checkPending,
                   fsVars, planVars>>

\* The log pane keeps at most this many entries.
MaxEntries == 100

\* dom.logContent.children: the element nodes among the child nodes.
children(nodes) == SelectSeq(nodes, LAMBDA x : x.kind = "element")

\* log() with the trimming done once instead of in a loop.
logTrimOnce(nodes, entry) ==
    LET inserted == <<entry>> \o nodes
    IN  IF Len(children(inserted)) > MaxEntries
        THEN SubSeq(inserted, 1, Len(inserted) - 1)
        ELSE inserted

RECURSIVE removeLast(_)
\* while (children.length > 100) removeChild(lastChild).
removeLast(nodes) ==
    IF Len(children(nodes)) > MaxEntries
    THEN removeLast(SubSeq(nodes, 1, Len(nodes) - 1))
    ELSE nodes

\* log(): the entry is inserted before the first child node, then the last
\* child nodes are removed while there are more than 100 entries.
log(nodes, entry) == removeLast(<<entry>> \o nodes)

\* result.errors || [].
ErrorsOf(result) == IF "errors" \in DOMAIN result THEN result.errors ELSE <<>>

\* showResult without the emptying of the error list.
showResultAppending(dom, result) ==
    [dom EXCEPT !.resultContent = TRUE,
                !.resultMoved = IF "moved_files" \in DOMAIN result
                                THEN result.moved_files ELSE 0,
                !.resultErrors = Len(ErrorsOf(result)),
                !.errorSection = ErrorsOf(result) # <<>>,
                !.errorList = @ \o ErrorsOf(result)]

\* showResult: the counters, and the error section, which is shown with
\* the errors of the result as its list, or hidden with its list left as
\* it was.
showResult(dom, result) ==
    [dom EXCEPT !.resultContent = TRUE,
                !.resultMoved = IF "moved_files" \in DOMAIN result
                                THEN result.moved_files ELSE 0,
                !.resultErrors = Len(ErrorsOf(result)),
                !.errorSection = ErrorsOf(result) # <<>>,
                !.errorList = IF ErrorsOf(result) # <<>> THEN ErrorsOf(result) ELSE @]

\* updateModes keeping the modes in the order the user checked them.
updateModesInClickOrder(m) ==
    /\ ~modal.visible
    /\ m \in Range(modeCheckboxes)
    /\ checked' = IF m \in checked THEN checked \ {m} ELSE checked \cup {m}
    /\ modes' = IF m \in checked THEN SelectSeq(modes, LAMBDA x : x # m)
                ELSE Append(modes, m)
    /\ btn' = updateButtons(folder, modes', hasUndo)
    /\ UNCHANGED <<modeCheckboxes, folder, options, hasUndo, progressVisible, modal, checkPending,
                   mainVars, fsVars, planVars>>

\* updateModes, after the user toggled the checkbox of mode m.
updateModes(m) ==
    /\ ~modal.visible
    /\ m \in Range(modeCheckboxes)
    /\ checked' = IF m \in checked THEN checked \ {m} ELSE checked \cup {m}
    /\ modes' = SelectSeq(modeCheckboxes, LAMBDA x : x \in checked')
    /\ btn' = updateButtons(folder, modes', hasUndo)
    /\ UNCHANGED <<modeCheckboxes, folder, options, hasUndo, progressVisible, modal, checkPending,
                   mainVars, fsVars, planVars>>

\* simulate() whose request is run by the backend as an execute.
simulateExecutes ==
    /\ ~modal.visible /\ ~btn.run
    /\ folder # None /\ Len(modes) > 0
    /\ progressVisible' = TRUE
    /\ runPython("execute", Request, "simulate", <<>>)
    /\ UNCHANGED <<modeCheckboxes, folder, checked, modes, options, hasUndo, btn, modal,
                   checkPending, fsVars, planVars>>

\* simulate(), from the Simulate button.
simulate ==
    /\ ~modal.visible /\ ~btn.run
    /\ folder # None /\ Len(modes) > 0
    /\ progressVisible' = TRUE
    /\ runPython("simulate", Request, "simulate", <<>>)
    /\ UNCHANGED <<modeCheckboxes, folder, checked, modes, options, hasUndo, btn, modal,
                   checkPending, fsVars, planVars>>

\* categorize(), from the Categorize button.
categorize ==
    /\ ~modal.visible /\ ~btn.run
    /\ folder # None /\ Len(modes) > 0
    /\ progressVisible' = TRUE
    /\ runPython("execute", Request, "categorize", <<>>)
    /\ UNCHANGED <<modeCheckboxes, folder, checked, modes, options, hasUndo, btn, modal,
                   checkPending, fsVars, planVars>>

\* closeModal, from the modal's close and cancel buttons.
closeModal ==
    /\ modal.visible
    /\ modal' = [visible |-> FALSE, preview |-> <<>>]
    /\ UNCHANGED <<modeCheckboxes, folder, checked, modes, options, hasUndo, btn, progressVisible,
                   checkPending, mainVars, fsVars, planVars>>

\* confirmSimulation sending the request without the test of categorize().
confirmSimulationUnguarded ==
    /\ modal.visible
    /\ modal' = [visible |-> FALSE, preview |-> <<>>]
    /\ progressVisible' = TRUE
    /\ runPython("execute", Request, "categorize", modal.preview)
    /\ UNCHANGED <<modeCheckboxes, folder, checked, modes, options, hasUndo, btn,
                   checkPending, fsVars, planVars>>

\* confirmSimulation: close the modal, then categorize().
confirmSimulation ==
    /\ modal.visible
    /\ modal' = [visible |-> FALSE, preview |-> <<>>]
    /\ IF folder # None /\ Len(modes) > 0
       THEN /\ progressVisible' = TRUE
            /\ runPython("execute", Request, "categorize", modal.preview)
       ELSE UNCHANGED <<progressVisible, mainVars>>
    /\ UNCHANGED <<modeCheckboxes, folder, checked, modes, options, hasUndo, btn,
                   checkPending, fsVars, planVars>>

\* undo(), from the Undo button.
undo ==
    /\ ~modal.visible /\ ~btn.undo
    /\ progressVisible' = TRUE
    /\ runPython("undo", NoArgs, "undo", <<>>)
    /\ UNCHANGED <<modeCheckboxes, folder, checked, modes, options, hasUndo, btn, modal,
                   checkPending, fsVars, planVars>>

\* What undo() writes to the activity log for a result.
undoReport(result) ==
    IF Succeeded(result)
    THEN [type |-> "success", text |-> "Undo completed",
          restored |-> IF "restored_files" \in DOMAIN result
                       THEN result.restored_files ELSE 0]
    ELSE [type |-> "error", text |-> "Undo error",
          detail |-> IF "error" \in DOMAIN result THEN result.error ELSE "undefined"]

\* cancel(), from the cancel button of the progress bar.
cancel ==
    /\ ~modal.visible /\ progressVisible
    /\ cancelOperation
    /\ progressVisible' = FALSE
    /\ UNCHANGED <<modeCheckboxes, folder, checked, modes, options, hasUndo, btn, modal,
                   checkPending, fsVars, planVars>>

\* checkUndo: get-last-operation answers, state.hasUndo and the buttons
\* follow.
checkUndo ==
    /\ checkPending
    /\ checkPending' = FALSE
    /\ hasUndo' = (getLastOperation # 0)
    /\ btn' = updateButtons(folder, modes, hasUndo')
    /\ UNCHANGED <<modeCheckboxes, folder, checked, modes, options, progressVisible, modal,
                   mainVars, fsVars, planVars>>

\* What the IPC handler that awaits process p returns to the renderer.
Reply(p) ==
    ipcReply(IF procs[p].err # ""
             THEN errorHandler(procs[p].err)
             ELSE closeHandler(procs[p].code, procs[p].stdout, procs[p].stderr))

\* The 'close' event of process p: runPython settles, the IPC handler
\* returns, and the renderer function awaiting it runs on to its next await.
Close(p) ==
    /\ procs[p].st = "exited"
    /\ LET pr     == procs[p]
           result == Reply(p)
       IN  /\ procs' = [q \in Pids \ {p} |-> procs[q]]
           /\ logs' = IF pr.op = "execute" /\ pr.log # 0
                       THEN [logs EXCEPT ![pr.log].ret =
                                [closed   |-> TRUE,
                                 solo     |-> pr.solo,
                                 pristine |-> pr.pristine,
                                 failed   |-> pr.cancelled \/ ~Succeeded(result),
                                 movedAny |-> pr.moved # {}]]
                       ELSE logs
           /\ pythonProcess' = 0
           /\ progressVisible' = FALSE
           /\ btn' = IF pr.fn = "selectFolder"
                     THEN updateButtons(folder, modes, hasUndo) ELSE btn
           /\ modal' = IF pr.fn = "simulate" /\ Succeeded(result)
                       THEN [visible |-> TRUE,
                             preview |-> <<[request |-> pr.args, result |-> result]>>]
                       ELSE modal
           /\ checkPending' = (checkPending \/ pr.fn = "undo"
                                \/ (pr.fn = "categorize" /\ Succeeded(result)))
    /\ UNCHANGED <<modeCheckboxes, folder, checked, modes, options, hasUndo, killOutcome,
                   loc, folders, planVars>>

\* ------------------------------------------------------------------------
\* Specification of the application
\* ------------------------------------------------------------------------

\* The result pane before any result: the placeholder is shown, the error
\* section hidden and its list empty.
NoResultShown == [shown |-> FALSE]
ResultIdle ==
    /\ resultDom = [resultContent |-> FALSE, resultMoved |-> 0, resultErrors |-> 0,
                    errorSection |-> FALSE, errorList |-> <<>>]
    /\ lastShown = NoResultShown

\* The log pane before the first log() call.
LogIdle ==
    /\ logContent = <<>>
    /\ logged = 0

NoPlanInput == [records |-> <<>>, modes |-> <<>>, options |-> [conflictResolution |-> None],
                existing |-> {}]

\* The application after init(), the first checkUndo() still pending.
InitSystem ==
    /\ folder = None
    /\ checked = {}
    /\ modes = <<>>
    /\ options = [conflictResolution |-> "number"]
    /\ hasUndo = FALSE
    /\ btn = [run |-> TRUE, undo |-> TRUE]
    /\ progressVisible = FALSE
    /\ modal = [visible |-> FALSE, preview |-> <<>>]
    /\ checkPending = TRUE
    /\ pythonProcess = 0
    /\ procs = <<>>
    /\ killOutcome \in KillOutcomes
    /\ loc = InitLoc
    /\ folders = {}
    /\ logs = <<>>

\* ------------------------------------------------------------------------
\* SimilarityEngine (4.3): scores between two name stems, as fractions
\* num/den, and the greedy clustering.
Min(a, b) == IF a <= b THEN a ELSE b
Max(a, b) == IF a >= b THEN a ELSE b

RECURSIVE Levenshtein(_, _)
\* The classic edit distance.
Levenshtein(a, b) ==
    IF a = <<>> THEN Len(b)
    ELSE IF b = <<>> THEN Len(a)
    ELSE IF Head(a) = Head(b) THEN Levenshtein(Tail(a), Tail(b))
    ELSE 1 + Min(Levenshtein(Tail(a), Tail(b)),
                 Min(Levenshtein(Tail(a), b), Levenshtein(a, Tail(b))))

RECURSIVE LCS(_, _)
\* The length of the longest common subsequence.
LCS(a, b) ==
    IF a = <<>> \/ b = <<>> THEN 0
    ELSE IF Head(a) = Head(b) THEN 1 + LCS(Tail(a), Tail(b))
    ELSE Max(LCS(Tail(a), b), LCS(a, Tail(b)))

\* 1 - distance/max(len) and 2|LCS|/(len(a)+len(b)).
Score(algorithm, a, b) ==
    IF algorithm = "levenshtein"
    THEN [num |-> Max(Len(a), Len(b)) - Levenshtein(a, b), den |-> Max(Len(a), Len(b))]
    ELSE [num |-> 2 * LCS(a, b), den |-> Len(a) + Len(b)]

\* The threshold test with the threshold ignored.
PassesAny(score, threshold) == score.num > 0

\* score x 100 >= threshold.
Passes(score, threshold) == 100 * score.num >= threshold * score.den

Higher(s, t) == s.num * t.den > t.num * s.den

\* One stem is placed: it joins the cluster whose representative (its first
\* stem) scores highest among those reaching the threshold, the earliest
\* such cluster on ties, or starts a new cluster of its own.
Place(clusters, stem, algorithm, threshold) ==
    LET sc(i) == Score(algorithm, clusters[i][1], stem)
        ok == {i \in 1..Len(clusters) : Passes(sc(i), threshold)}
    IN  IF ok = {} THEN Append(clusters, <<stem>>)
        ELSE LET best == CHOOSE i \in ok : \A j \in ok :
                            /\ ~Higher(sc(j), sc(i))
                            /\ j < i => Higher(sc(i), sc(j))
             IN  [clusters EXCEPT ![best] = Append(@, stem)]

RECURSIVE Greedy(_, _, _, _)
Greedy(clusters, stems, algorithm, threshold) ==
    IF stems = <<>> THEN clusters
    ELSE Greedy(Place(clusters, Head(stems), algorithm, threshold),
                Tail(stems), algorithm, threshold)

\* The clusters of the stems, taken in scan order.
Cluster(stems, algorithm, threshold) == Greedy(<<>>, stems, algorithm, threshold)

NoStems == [stems |-> <<>>, algorithm |-> None, lo |-> 100, hi |-> 100]

\* The pure specifications are not running.
NoPureInput ==
    /\ pIn = NoPlanInput
    /\ pOut = <<>>
    /\ cIn = [code |-> 0, stdout |-> <<>>]
    /\ cOut = [settled |-> "pending"]
    /\ sIn = NoStems
    /\ sOut = [done |-> FALSE]
    /\ ResultIdle
    /\ LogIdle

\* A page with one mode checkbox.
Init ==
    /\ InitSystem
    /\ modeCheckboxes = <<"extension">>
    /\ NoPureInput

\* A page with two mode checkboxes.
InitTwoModes ==
    /\ InitSystem
    /\ modeCheckboxes = <<"extension", "size">>
    /\ NoPureInput

\* One step of a backend process.
Backend ==
    \/ \E p \in Pids : Abort(p)
    \/ \E p \in Pids : Scan(p)
    \/ \E p \in Pids : Simulate(p)
    \/ \E p \in Pids : ExecStart(p)
    \/ \E p \in Pids : ExecEntry(p)
    \/ \E p \in Pids : ExecMove(p)
    \/ \E p \in Pids : ExecLog(p)
    \/ \E p \in Pids : UndoStart(p)
    \/ \E p \in Pids : UndoRestore(p)
    \/ \E p \in Pids : UndoCleanup(p)
    \/ \E p \in Pids : UndoArchive(p)

Next ==
    \/ selectFolder
    \/ \E m \in ModeSet : updateModes(m)
    \/ simulate
    \/ categorize /\ LogsBudget(MaxLogs)
    \/ closeModal
    \/ confirmSimulation /\ LogsBudget(MaxLogs)
    \/ undo
    \/ cancel
    \/ checkUndo
    \/ \E p \in Pids : SpawnError(p)
    \/ Backend
    \/ \E p \in Pids : Close(p)

\* The application, the user free to start an operation while another runs.
Spec == Init /\ [][Next]_vars

\* The user starts an operation only when no other is pending.
Serial == Cardinality(DOMAIN procs') <= 1

NextSerial(n) ==
    \/ selectFolder /\ Serial
    \/ \E m \in ModeSet : updateModes(m)
    \/ simulate /\ Serial
    \/ categorize /\ Serial /\ LogsBudget(n)
    \/ closeModal
    \/ confirmSimulation /\ Serial /\ LogsBudget(n)
    \/ undo /\ Serial
    \/ cancel
    \/ checkUndo
    \/ \E p \in Pids : SpawnError(p)
    \/ Backend
    \/ \E p \in Pids : Close(p)

\* The application under serialized requests.
SpecSerial == Init /\ [][NextSerial(MaxLogs)]_vars

\* The same with room for MaxSerialLogs operation logs, the backend
\* handling the kill signal between two entries.
InitLogs == Init /\ killOutcome = "cooperative"
SpecLogs == InitLogs /\ [][NextSerial(MaxSerialLogs)]_vars

\* The same, on a page with two mode checkboxes.
SpecTwoModes == InitTwoModes /\ [][NextSerial(MaxLogs)]_vars

\* ------------------------------------------------------------------------
\* Specification of the PlanBuilder alone
\* ------------------------------------------------------------------------

\* The records the planning inputs are drawn from: three files named
\* img.jpg and one named img_1.jpg, in different source locations; the
\* first two were modified within the same second.
RecordPool ==
    {[path  |-> [dir |-> <<d>>, name |-> MkName(<<"img">>, "jpg")],
      name  |-> MkName(<<"img">>, "jpg"),
      size  |-> 2 * 1024,
      mtime |-> IF d = "srcA" THEN 10 ELSE IF d = "srcB" THEN 12 ELSE 20]
        : d \in {"srcA", "srcB", "srcC"}}
    \cup
    {[path  |-> [dir |-> <<"srcA">>, name |-> MkName(<<"img", "1">>, "jpg")],
      name  |-> MkName(<<"img", "1">>, "jpg"),
      size  |-> 2 * MB,
      mtime |-> 20]}

\* File sets: the sequences of up to MaxPlanRecords distinct records.
RecordSeqs ==
    {s \in UNION {[1..n -> RecordPool] : n \in 1..MaxPlanRecords} :
        \A i, j \in 1..Len(s) : i # j => s[i] # s[j]}

\* What the destination tree may hold before planning.
ExistingSets ==
    {{}, {[folder |-> <<"jpg">>, name |-> MkName(<<"img", "1">>, "jpg")]}}

PlanInputs ==
    [records  : RecordSeqs,
     modes    : {<<"extension">>, <<"size">>, <<"extension", "size">>},
     options  : [conflictResolution : ConflictValues],
     existing : ExistingSets]

\* A planning input is given and nothing is planned yet; the application
\* is idle.
PlanInit ==
    /\ InitSystem
    /\ killOutcome = "terminated"
    /\ modeCheckboxes = <<"extension", "size">>
    /\ pIn \in PlanInputs
    /\ pOut = <<>>
    /\ cIn = [code |-> 0, stdout |-> <<>>]
    /\ cOut = [settled |-> "pending"]
    /\ sIn = NoStems
    /\ sOut = [done |-> FALSE]
    /\ ResultIdle
    /\ LogIdle

\* The PlanBuilder builds the plan of the input.
PlanBuild ==
    /\ pOut = <<>>
    /\ pOut' = BuildPlan(pIn.records, pIn.modes, pIn.options, pIn.existing)
    /\ UNCHANGED <<rendererVars, mainVars, fsVars, pIn, cIn, cOut, sIn, sOut, domVars>>

SpecPlan == PlanInit /\ [][PlanBuild]_vars

\* The close handler on its own: a backend has exited with some code and
\* some output, of up to MaxLines lines.
MaxLines == 3

\* What the string values of a printed object may hold.
StringPool == {<<>>, <<Tok("w")>>, <<Tok("PROGRESS:")>>, <<Tok("RESULT:")>>, <<Tok("{")>>}

\* The lines a backend prints: progress lines and a result line.
LinePool ==
    {[t |-> "PROGRESS", json |-> [percent |-> 50, text |-> x]] : x \in StringPool}
    \cup
    {[t |-> "RESULT", json |-> [success |-> b, text |-> x]] :
        b \in BOOLEAN, x \in StringPool}

Outputs == UNION {[1..n -> LinePool] : n \in 0..MaxLines}

CloseInit ==
    /\ InitSystem
    /\ killOutcome = "terminated"
    /\ modeCheckboxes = <<"extension">>
    /\ pIn = NoPlanInput
    /\ pOut = <<>>
    /\ cIn \in [code : {0, 1}, stdout : Outputs]
    /\ cOut = [settled |-> "pending"]
    /\ sIn = NoStems
    /\ sOut = [done |-> FALSE]
    /\ ResultIdle
    /\ LogIdle

\* The process closes.
CloseEvent ==
    /\ cOut.settled = "pending"
    /\ cOut' = closeHandler(cIn.code, cIn.stdout, "")
    /\ UNCHANGED <<rendererVars, mainVars, fsVars, pIn, pOut, cIn, sIn, sOut, domVars>>

SpecClose == CloseInit /\ [][CloseEvent]_vars

\* The SimilarityEngine on its own: up to MaxStems stems in scan order, an
\* algorithm and two thresholds lo <= hi.
MaxStems == 3

StemPool == {<<"a", "b">>, <<"a", "c">>, <<"a", "b", "c">>, <<"d", "b", "c">>, <<"d", "e">>}
Thresholds == {50, 60, 75, 100}

SimilarityInputs ==
    {i \in [stems     : UNION {[1..n -> StemPool] : n \in 1..MaxStems},
            algorithm : {"levenshtein", "lcs"},
            lo        : Thresholds,
            hi        : Thresholds] : i.lo <= i.hi}

SimilarityInit ==
    /\ InitSystem
    /\ killOutcome = "terminated"
    /\ modeCheckboxes = <<"extension">>
    /\ pIn = NoPlanInput
    /\ pOut = <<>>
    /\ cIn = [code |-> 0, stdout |-> <<>>]
    /\ cOut = [settled |-> "pending"]
    /\ sIn \in SimilarityInputs
    /\ sOut = [done |-> FALSE]
    /\ ResultIdle
    /\ LogIdle

\* The stems are clustered at either threshold.
ClusterStems ==
    /\ ~sOut.done
    /\ sOut' = [done |-> TRUE,
                lo   |-> Cluster(sIn.stems, sIn.algorithm, sIn.lo),
                hi   |-> Cluster(sIn.stems, sIn.algorithm, sIn.hi)]
    /\ UNCHANGED <<rendererVars, mainVars, fsVars, pIn, pOut, cIn, cOut, sIn, domVars>>

SpecSimilarity == SimilarityInit /\ [][ClusterStems]_vars

\* The result pane on its own: categorize requests return one after the
\* other, each with up to MaxErrors error messages.
MaxErrors == 2

ErrorMessages == {"a.txt: permission denied", "b.txt: disk full", "c.txt: path too long"}
ErrorLists == UNION {[1..n -> ErrorMessages] : n \in 0..MaxErrors}

\* What the categorize handler may return: the backend's result, the close
\* handler's fallback object, or a failure.
CategorizeResults ==
    {[success |-> TRUE, moved_files |-> m, errors |-> e] :
        m \in 0..Cardinality(Files), e \in ErrorLists}
    \cup {[success |-> TRUE, raw |-> <<>>],
          [success |-> FALSE, error |-> "folder not found"]}

ResultInit ==
    /\ InitSystem
    /\ killOutcome = "terminated"
    /\ modeCheckboxes = <<"extension">>
    /\ pIn = NoPlanInput
    /\ pOut = <<>>
    /\ cIn = [code |-> 0, stdout |-> <<>>]
    /\ cOut = [settled |-> "pending"]
    /\ sIn = NoStems
    /\ sOut = [done |-> FALSE]
    /\ ResultIdle
    /\ LogIdle

\* categorize() after its request returned: a successful result is shown.
categorizeReturns(result) ==
    /\ resultDom' = IF Succeeded(result) THEN showResult(resultDom, result) ELSE resultDom
    /\ lastShown' = IF Succeeded(result)
                    THEN [shown |-> TRUE, result |-> result,
                          earlier |-> IF lastShown.shown
                                      THEN ErrorsOf(lastShown.result) ELSE <<>>]
                    ELSE lastShown
    /\ UNCHANGED <<rendererVars, mainVars, fsVars, pIn, pOut, cIn, cOut, sIn, sOut,
                   logContent, logged>>

\* The log pane on its own: up to MaxCalls calls of log(). The page's
\* markup may leave a white-space text node in the pane.
MaxCalls == 110

LogInit ==
    /\ InitSystem
    /\ killOutcome = "terminated"
    /\ modeCheckboxes = <<"extension">>
    /\ pIn = NoPlanInput
    /\ pOut = <<>>
    /\ cIn = [code |-> 0, stdout |-> <<>>]
    /\ cOut = [settled |-> "pending"]
    /\ sIn = NoStems
    /\ sOut = [done |-> FALSE]
    /\ ResultIdle
    /\ logContent \in {<<>>, <<[kind |-> "text"]>>}
    /\ logged = 0

\* One call of log(); the message is numbered by the call.
logCall ==
    /\ logged < MaxCalls
    /\ logged' = logged + 1
    /\ logContent' = log(logContent, [kind |-> "element", message |-> logged + 1])
    /\ UNCHANGED <<rendererVars, mainVars, fsVars, pIn, pOut, cIn, cOut, sIn, sOut,
                   resultDom, lastShown>>

SpecLog == LogInit /\ [][logCall]_vars

SpecResult == ResultInit /\ [][\E result \in CategorizeResults : categorizeReturns(result)]_vars

\* What may arrive of the output when one of its progress lines is lost,
\* truncated or corrupted on the way: the line is missing, only a proper
\* prefix of its text arrives, or other characters arrive in its place.
Garbled(l) ==
    {<<>>, <<[t |-> "TEXT", text |-> <<Tok("w"), Tok("\n")>>]>>}
    \cup {<<[t |-> "TEXT", text |-> SubSeq(LineText(l), 1, n)]>> :
            n \in 1..(Len(LineText(l)) - 1)}
Garblings(stdout) ==
    UNION {{SubSeq(stdout, 1, i - 1) \o g \o SubSeq(stdout, i + 1, Len(stdout)) :
                g \in Garbled(stdout[i])} :
            i \in {j \in 1..Len(stdout) : stdout[j].t = "PROGRESS"}}

\* ------------------------------------------------------------------------
\* Properties
\* ------------------------------------------------------------------------

\* The sources of the entries a log holds.
LoggedSources(i) == {logs[i].operations[k].source : k \in 1..Len(logs[i].operations)}

\* The destinations of the entries of all logs.
LoggedDestinations ==
    UNION {{logs[i].operations[k].destination : k \in 1..Len(logs[i].operations)}
              : i \in 1..Len(logs)}

\* C1: at every moment at most one backend process (scan, simulate, execute
\* or undo) is running: no backend process is spawned while an earlier one
\* has not exited.
OneOperationInFlight == Cardinality(AlivePids) <= 1

\* C2: a cancel request during execute takes effect only between plan
\* entries: an execute stopped by a cancel has logged every file it moved,
\* it is never stopped between a move and the log entry of that move.
CancelBetweenEntries ==
    \A p \in Pids :
        (procs[p].op = "execute" /\ procs[p].cancelled /\ procs[p].st = "exited")
            => /\ procs[p].pc # "log"
               /\ procs[p].log # 0 => procs[p].moved \subseteq LoggedSources(procs[p].log)

\* C3: cancelling an in-flight execute is not reported as an error: the
\* reply to the caller of execute is a result with success true that is
\* marked cancelled, not {success:false, error}.
CancelIsNotAnError ==
    \A p \in Pids :
        (procs[p].op = "execute" /\ procs[p].cancelled /\ procs[p].st = "exited")
            => /\ Succeeded(Reply(p))
               /\ "cancelled" \in DOMAIN Reply(p)

\* C4: whenever no executor stands between a move and the append of its log
\* entry, every file that is at a destination has an entry with that
\* destination in a persisted log, also after a run was cancelled or killed.
AppliedMovesAreLogged ==
    (\A p \in Pids : ~(Alive(p) /\ procs[p].op = "execute" /\ procs[p].pc = "log"))
        => \A f \in Files : loc[f].dir # Root => loc[f] \in LoggedDestinations

\* C5: once an execute that moved at least one file and was cancelled or
\* failed has returned and the renderer is idle, state.hasUndo is true as
\* long as the log of that execute has not been undone.
UndoOfferedAfterPartialRun ==
    \A i \in 1..Len(logs) :
        (/\ logs[i].ret.closed /\ logs[i].ret.failed /\ logs[i].ret.movedAny
         /\ ~logs[i].archived
         /\ Pids = {} /\ ~checkPending)
            => hasUndo

\* C6: round trip: after an execute on the folder as it first was, followed
\* by an undo, both run alone and to their end, every file is back at its
\* original path and no folder the execute created is left.
RoundTrip ==
    \A i \in 1..Len(logs) :
        (/\ i = Len(logs)
         /\ logs[i].ret.closed /\ logs[i].ret.solo /\ logs[i].ret.pristine
         /\ ~logs[i].ret.failed
         /\ logs[i].archived /\ logs[i].undoSolo
         /\ Pids = {})
            => Pristine

\* The final (destination folder, destination name) pairs of a plan, one per
\* entry.
FinalPaths(plan) ==
    [k \in 1..Len(PlanQueue(plan)) |->
        [dir |-> PlanQueue(plan)[k].folder, name |-> PlanQueue(plan)[k].destinationName]]

\* C7: collision freedom: in every plan, whichever the conflict-resolution
\* strategy, no two entries have the same final (folder, name) pair.
CollisionFreedom ==
    pOut # <<>> =>
        \A i, j \in 1..Len(FinalPaths(pOut)) :
            i # j => FinalPaths(pOut)[i] # FinalPaths(pOut)[j]

\* C9: the execute started by confirming a preview runs with the folder,
\* modes and options of the simulate request whose plan the preview shows,
\* and its queue is the displayed plan.
ConfirmRunsThePreview ==
    \A p \in Pids :
        (procs[p].op = "execute" /\ procs[p].preview # <<>>)
            => /\ procs[p].args = procs[p].preview[1].request
               /\ procs[p].pc # "start"
                    => procs[p].queue = PlanQueue(procs[p].preview[1].result.plan)

\* An execute that was not cancelled has ended.
EndedExecute(p) ==
    /\ procs[p].op = "execute" /\ procs[p].st = "exited" /\ ~procs[p].cancelled
    /\ procs[p].code = 0 /\ procs[p].err = ""

OperationFailureIsReported ==
    \A p \in Pids :
        (procs[p].st = "exited" /\ (procs[p].code # 0 \/ procs[p].err # ""))
            => /\ "success" \in DOMAIN Reply(p)
               /\ ~Reply(p).success
               /\ "error" \in DOMAIN Reply(p)
               /\ Reply(p).error =
                      (IF procs[p].err # "" THEN procs[p].err
                       ELSE IF procs[p].stderr # "" THEN procs[p].stderr
                       ELSE "Python process exited")

\* A backend that aborted with a message on stderr has exited.
OperationFailureSeen ==
    \E p \in Pids :
        procs[p].st = "exited" /\ procs[p].code # 0 /\ procs[p].stderr # ""

\* An undo that found no unarchived log has ended.
FoundNothingToUndo(p) ==
    /\ procs[p].op = "undo" /\ procs[p].st = "exited"
    /\ procs[p].code = 0 /\ procs[p].err = ""
    /\ procs[p].log = 0

\* C13: an undo requested when no unarchived operation log exists is not
\* reported to the user as an error.
NothingToUndoIsNoError ==
    \A p \in Pids : FoundNothingToUndo(p) => undoReport(Reply(p)).type # "error"

\* C14: simulate changes nothing: from a simulate request until its result
\* is displayed the files, the folders and the operation logs stay as they
\* are, and an execute is started only by Categorize or by confirming the
\* preview.
SimulateChangesNothing ==
    [][/\ (\E p \in Pids : procs[p].fn = "simulate") => UNCHANGED <<loc, folders, logs>>
       /\ (\E q \in DOMAIN procs' \ Pids : procs'[q].op = "execute")
              => (categorize \/ confirmSimulation)]_vars

\* The preview of a simulation is displayed, the folder is untouched and no
\* log exists.
SimulationDisplayed ==
    modal.visible /\ modal.preview # <<>> /\ Pristine /\ logs = <<>>

ArchivedLogNeverReplayed ==
    [][/\ \A i \in 1..Len(logs) :
             /\ i <= Len(logs')
             /\ logs[i].archived
                    => logs'[i].archived /\ logs'[i].operations = logs[i].operations
       /\ \A p \in DOMAIN procs' :
             (/\ procs'[p].op = "undo" /\ procs'[p].log # 0
              /\ (p \notin Pids \/ procs[p].log = 0))
                 => ~logs[procs'[p].log].archived
       /\ \A p \in Pids \cap DOMAIN procs' :
             (procs[p].op = "undo" /\ procs'[p].moved # procs[p].moved)
                 => ~logs[procs[p].log].archived]_vars

\* After an execute and its undo, one more undo has found nothing to undo:
\* the archived log is still there and no file was moved.
UndoAfterLastUndo ==
    \E p \in Pids :
        /\ FoundNothingToUndo(p) /\ procs[p].moved = {}
        /\ logs # <<>>
        /\ \A i \in 1..Len(logs) : logs[i].archived /\ logs[i].operations # <<>>

\* C18: the renderer sends a simulate or categorize request only while a
\* folder is selected and at least one mode is checked: state.modes lists
\* the checked modes, every request sent carries a folder and a non-empty
\* mode list, and with no folder or no mode no request is sent.
RequestsNeedFolderAndMode ==
    [][/\ modes = SelectSeq(modeCheckboxes, LAMBDA x : x \in checked)
       /\ \A p \in Pids :
             procs[p].op \in {"simulate", "execute"}
                 => procs[p].args.folderPath # None /\ procs[p].args.modes # <<>>
       /\ (folder = None \/ checked = {})
             => \A q \in DOMAIN procs' \ Pids : procs'[q].op \notin {"simulate", "execute"}
       /\ \A q \in DOMAIN procs' \ Pids :
             procs'[q].op \in {"simulate", "execute"}
                 => /\ procs'[q].args.folderPath = folder
                    /\ Range(procs'[q].args.modes) = checked]_vars

\* A preview is displayed while no mode is checked any more: confirming it
\* calls categorize() with an empty mode list.
PreviewShownWithoutMode ==
    modal.visible /\ modal.preview # <<>> /\ folder # None /\ checked = {} /\ modes = <<>>

\* C19: whenever a backend process is running a cancel-operation request
\* kills it: the handler holds a reference to every process that is alive
\* and answers 'No operation running' only when none is.
CancelReachesEveryProcess ==
    /\ cancelReply.success = FALSE => AlivePids = {}
    /\ \A p \in AlivePids : procs[p].st = "running" => pythonProcess = p

\* C20: when the backend exits with code 0 and its output holds one
\* RESULT: line with a JSON object, the close handler resolves with exactly
\* that object, whatever the object holds and wherever the PROGRESS lines
\* stand.
ResultIsReturned ==
    (/\ cOut.settled # "pending"
     /\ cIn.code = 0
     /\ Len(ResultLines(cIn.stdout)) = 1)
        => /\ cOut.settled = "resolve"
           /\ cOut.value = ResultLines(cIn.stdout)[1].json

\* The backend printed its progress lines and then one RESULT: line.
WellFormedOutput(stdout) ==
    /\ stdout # <<>>
    /\ stdout[Len(stdout)].t = "RESULT"
    /\ \A i \in 1..(Len(stdout) - 1) : stdout[i].t = "PROGRESS"

\* C17: losing, truncating or corrupting a progress line of the backend's
\* output changes neither the value the request returns nor whether it
\* completes.
ProgressLossIsHarmless ==
    (cOut.settled # "pending" /\ WellFormedOutput(cIn.stdout))
        => \A g \in Garblings(cIn.stdout) :
               closeHandler(cIn.code, g, "") = cOut

\* Every cluster holds copies of one stem only.
OnlyIdenticalStems(clusters) ==
    \A i \in 1..Len(clusters) : \A j \in 1..Len(clusters[i]) :
        clusters[i][j] = clusters[i][1]

SuccessOnlyIfReported ==
    (cOut.settled # "pending" /\ Succeeded(ipcReply(cOut)))
        => \E i \in 1..Len(cIn.stdout) :
               /\ cIn.stdout[i].t = "RESULT"
               /\ cIn.stdout[i].json.success

\* The position of a mode's checkbox on the page.
CheckboxPosition(m) ==
    CHOOSE i \in 1..Len(modeCheckboxes) : modeCheckboxes[i] = m

\* The sequence lists the modes of the set once each, in page order.
ListsInPageOrder(seq, set) ==
    /\ Range(seq) = set
    /\ \A i, j \in 1..Len(seq) :
           i < j => CheckboxPosition(seq[i]) < CheckboxPosition(seq[j])

\* C22: the mode list depends only on the set of checked modes, not on the
\* order of the clicks: state.modes is always the checked modes in page
\* order, and so is the mode list of every simulate and execute request.
ModesDependOnSelectionOnly ==
    /\ ListsInPageOrder(modes, checked)
    /\ \A p \in Pids :
           procs[p].op \in {"simulate", "execute"}
               => ListsInPageOrder(procs[p].args.modes, Range(procs[p].args.modes))

\* Both modes are checked and a request with both was sent.
TwoModesRequested ==
    /\ Cardinality(checked) = 2
    /\ \E p \in Pids :
           /\ procs[p].op \in {"simulate", "execute"}
           /\ procs[p].args.modes = modes

\* C23: after any sequence of categorize results the error section is
\* visible exactly when the most recent successful result has a non-empty
\* errors list; it then lists exactly the messages of that result, and the
\* displayed error count is the length of that list.
ErrorSectionShowsLastResult ==
    lastShown.shown =>
        /\ resultDom.errorSection <=> ErrorsOf(lastShown.result) # <<>>
        /\ resultDom.errorSection => resultDom.errorList = ErrorsOf(lastShown.result)
        /\ resultDom.resultErrors = Len(ErrorsOf(lastShown.result))

\* A result with errors is shown after a result with other errors.
SecondErrorListShown ==
    /\ lastShown.shown
    /\ ErrorsOf(lastShown.result) # <<>>
    /\ lastShown.earlier # <<>>
    /\ lastShown.earlier # ErrorsOf(lastShown.result)
    /\ resultDom.errorList = ErrorsOf(lastShown.result)

\* C24: after any sequence of log() calls the log pane holds at most 100
\* entries, and they are the most recent messages, newest first.
LogKeepsNewest ==
    LET c == children(logContent)
    IN  /\ Len(c) = IF logged <= MaxEntries THEN logged ELSE MaxEntries
        /\ \A i \in 1..Len(c) : c[i].message = logged - i + 1

\* More messages were logged than the pane keeps: the pane holds the
\* newest 100 only, whatever it held at the start.
OldEntriesDropped ==
    /\ logged > MaxEntries + 1
    /\ Len(logContent) = MaxEntries
    /\ logContent[1].message = logged

=============================================================================
